---- MODULE Spec2Model ----
(***************************************************************************)
(* nginclaude: a reverse proxy that asks an inference service for the      *)
(* target of every request and falls back to prefix rules loaded from an   *)
(* nginx-style configuration file (src/src/vercel-proxy.ts).               *)
(*                                                                         *)
(* Strings are sequences of one-character strings, so that startsWith,     *)
(* URL parsing and string concatenation are computed, not assumed.         *)
(***************************************************************************)
EXTENDS Integers, Sequences, FiniteSets, TLC

\* ------------------------------------------------------------------ bounds
MaxRules == 3      \* location blocks in a configuration file given to the loader
MaxServed == 2     \* location blocks in the configuration file the proxy serves with
MaxBlocks == 2     \* location blocks in a configuration text given to the loader alone
NumReq == 2        \* requests handled concurrently

\* ----------------------------------------------------------------- strings
P_root == <<"/">>
P_a == <<"/", "a">>
P_ab == <<"/", "a", "b">>
T_A == <<"h", "t", "t", "p", ":", "/", "/", "a", ":", "1">>
T_B == <<"h", "t", "t", "p", ":", "/", "/", "b", ":", "2">>
StatusPath == <<"/", "p", "r", "o", "x", "y", "-", "s", "t", "a", "t", "u", "s">>
U_status_q == <<"/", "p", "r", "o", "x", "y", "-", "s", "t", "a", "t", "u", "s", "?", "x">>
U_ab == <<"/", "a", "b">>
U_ab_q == <<"/", "a", "b", "?", "q">>
U_b == <<"/", "b">>
U_a_q == <<"/", "a", "?", "q">>
P_b == <<"/", "b">>
P_ab_q == <<"/", "a", "b", "?", "q">>
U_ab_z == <<"/", "a", "b", "?", "z">>
X_inTable == <<"h", "t", "t", "p", ":", "/", "/", "a", ":", "1", "/", "a", "b">>
X_outside == <<" ", "h", "t", "t", "p", ":", "/", "/", "e", ":", "9", "/", "x", "?", "y", "\n">>
X_noHost == <<"m", ":", "x">>
X_bad == <<"/", "a", "b">>
HTTP == <<"h", "t", "t", "p">>
HTTPS == <<"h", "t", "t", "p", "s">>

\* the shipped configuration file and the requests of its test script
P_api == <<"/", "a", "p", "i">>
P_admin == <<"/", "a", "d", "m", "i", "n">>
P_static == <<"/", "s", "t", "a", "t", "i", "c">>
T_8001 == <<"h", "t", "t", "p", ":", "/", "/", "l", "o", "c", "a", "l", "h", "o", "s", "t", ":", "8", "0", "0", "1">>
T_8002 == <<"h", "t", "t", "p", ":", "/", "/", "l", "o", "c", "a", "l", "h", "o", "s", "t", ":", "8", "0", "0", "2">>
T_8003 == <<"h", "t", "t", "p", ":", "/", "/", "l", "o", "c", "a", "l", "h", "o", "s", "t", ":", "8", "0", "0", "3">>
T_8004 == <<"h", "t", "t", "p", ":", "/", "/", "l", "o", "c", "a", "l", "h", "o", "s", "t", ":", "8", "0", "0", "4">>
U_api_users == <<"/", "a", "p", "i", "/", "u", "s", "e", "r", "s">>
U_about == <<"/", "a", "b", "o", "u", "t">>
U_admin_dashboard == <<"/", "a", "d", "m", "i", "n", "/", "d", "a", "s", "h", "b", "o", "a", "r", "d">>
U_static_styles == <<"/", "s", "t", "a", "t", "i", "c", "/", "s", "t", "y", "l", "e", "s", ".", "c", "s", "s">>
B_json == <<"{", "}">>
B_text == <<"h", "i">>
ArrowText == <<" ", "=", ">", " ">>

\* what is captured of a proxy_pass to an upstream group named b, and of a
\* proxy_pass whose target is left blank
T_upstream == <<"h", "t", "t", "p", ":", "/", "/", "b">>
T_blank == <<>>

Alpha == {"a", "b", "e", "h", "m", "p", "s", "t", "x", "y"}
Digit == {"0", "1", "2", "3", "4", "5", "6", "7", "8", "9"}
Blank == {" ", "\n", "\t"}

\* variant: the whole string is compared
IsExactly(s, p) == s = p

\* variant: the prefix has to end where a path segment ends
StartsWithSegment(s, p) ==
    /\ Len(p) <= Len(s)
    /\ SubSeq(s, 1, Len(p)) = p
    /\ \/ Len(s) = Len(p)
       \/ p[Len(p)] = "/"
       \/ s[Len(p) + 1] \in {"/", "?"}

\* String.prototype.startsWith
StartsWith(s, p) == Len(p) <= Len(s) /\ SubSeq(s, 1, Len(p)) = p

\* index of the first character of s that lies in the set cs, 0 when none
RECURSIVE IndexFrom(_, _, _)
IndexFrom(s, cs, i) ==
    IF i > Len(s) THEN 0
    ELSE IF s[i] \in cs THEN i
    ELSE IndexFrom(s, cs, i + 1)

IndexOf(s, cs) == IndexFrom(s, cs, 1)

\* -------------------------------------------------------------- RouteTable
\* The rules the location regex extracts, in configuration-file order.
RuleSet ==
    { [path |-> P_root, target |-> T_A],
      [path |-> P_root, target |-> T_B],
      [path |-> P_a,    target |-> T_A],
      [path |-> P_b,    target |-> T_B],
      [path |-> P_ab,   target |-> T_B],
      [path |-> P_ab,   target |-> T_A] }

\* the rules of the configuration files the proxy is run with below
ServedRules ==
    { [path |-> P_root, target |-> T_A],
      [path |-> P_ab,   target |-> T_B] }

RECURSIVE SeqsUpTo(_, _)
SeqsUpTo(S, n) ==
    IF n = 0 THEN { <<>> }
    ELSE LET shorter == SeqsUpTo(S, n - 1)
         IN  shorter \cup { Append(c, x) : c \in { d \in shorter : Len(d) = n - 1 }, x \in S }

Configs == SeqsUpTo(RuleSet, MaxRules)
\* configuration files holding no location block twice
ServedConfigs ==
    { c \in SeqsUpTo(ServedRules, MaxServed) :
        \A i, j \in DOMAIN c : i # j => c[i] # c[j] }

\* configuration files that exist but cannot be read
UnreadableConfigs == { c \in ServedConfigs : Len(c) = 1 }

\* unnamed/part_001 (nginclaude-proxy.conf), its location blocks in file order
ShippedConfig ==
    << [path |-> P_api,    target |-> T_8001],
       [path |-> P_admin,  target |-> T_8003],
       [path |-> P_static, target |-> T_8004],
       [path |-> P_root,   target |-> T_8002] >>

\* the shipped file, the shipped file without its root location, and the
\* shipped file with the proxy_pass of its first location left blank
ShippedConfigs ==
    { ShippedConfig,
      SubSeq(ShippedConfig, 1, 3),
      [ShippedConfig EXCEPT ![1].target = T_blank] }

\* the comparator handed to routes.sort
\* variant: shorter paths first
SortCompareAscending(a, b) ==
    IF a.path = P_root THEN 1
    ELSE IF b.path = P_root THEN -1
    ELSE Len(a.path) - Len(b.path)

\* variant: the root rule goes last, the other rules are left unordered
SortCompareRootOnly(a, b) ==
    IF a.path = P_root THEN 1
    ELSE IF b.path = P_root THEN -1
    ELSE 0

\* variant: the two tests for the root rule are made in the other order
SortCompareRootTestsSwapped(a, b) ==
    IF b.path = P_root THEN -1
    ELSE IF a.path = P_root THEN 1
    ELSE Len(b.path) - Len(a.path)

\* variant: of two rules of equal length the first is taken for the greater
SortCompareTiesSwapped(a, b) ==
    IF a.path = P_root THEN 1
    ELSE IF b.path = P_root THEN -1
    ELSE IF Len(b.path) = Len(a.path) THEN -1
    ELSE Len(b.path) - Len(a.path)

SortCompare(a, b) ==
    IF a.path = P_root THEN 1
    ELSE IF b.path = P_root THEN -1
    ELSE Len(b.path) - Len(a.path)

\* Array.prototype.sort for arrays shorter than one minimal run: the first
\* natural run is detected (and reversed when strictly descending), then each
\* later element is placed by binary insertion.
RECURSIVE CountRun(_, _, _)
CountRun(s, idx, desc) ==
    IF idx > Len(s) THEN Len(s)
    ELSE LET order == SortCompare(s[idx], s[idx - 1])
         IN  IF (desc /\ order >= 0) \/ (~desc /\ order < 0) THEN idx - 1
             ELSE CountRun(s, idx + 1, desc)

Reverse(s) == [i \in 1..Len(s) |-> s[Len(s) + 1 - i]]

RECURSIVE InsertPos(_, _, _, _)
InsertPos(s, pivot, left, right) ==
    IF left >= right THEN left
    ELSE LET mid == left + ((right - left) \div 2)
         IN  IF SortCompare(pivot, s[mid + 1]) < 0
             THEN InsertPos(s, pivot, left, mid)
             ELSE InsertPos(s, pivot, mid + 1, right)

RECURSIVE InsertFrom(_, _)
InsertFrom(s, start) ==
    IF start > Len(s) THEN s
    ELSE LET pivot == s[start]
             pos == InsertPos(s, pivot, 0, start - 1)
             placed == SubSeq(s, 1, pos) \o <<pivot>> \o SubSeq(s, pos + 1, start - 1)
                       \o SubSeq(s, start + 1, Len(s))
         IN  InsertFrom(placed, start + 1)

SortRoutes(s) ==
    IF Len(s) < 2 THEN s
    ELSE LET desc == SortCompare(s[2], s[1]) < 0
             run == CountRun(s, 3, desc)
             made == IF desc THEN Reverse(SubSeq(s, 1, run)) \o SubSeq(s, run + 1, Len(s))
                     ELSE s
         IN  InsertFrom(made, run + 1)

\* parseNginxConfig: the extracted rules, sorted by specificity
parseNginxConfig(cfg) == SortRoutes(cfg)

\* variant: a file that cannot be read yields a default root rule
LoadRoutesWithDefault(ok, cfg) ==
    IF ok THEN parseNginxConfig(cfg)
    ELSE << [path |-> P_root, target |-> T_A] >>

\* parseNginxConfig with its try and catch: readFileSync throws for a file
\* that cannot be read, and the catch returns the empty table
LoadRoutes(ok, cfg) ==
    IF ok THEN parseNginxConfig(cfg)
    ELSE <<>>

\* variant: the scan without its break, so that the last matching rule wins
RECURSIVE FindRouteNoBreak(_, _, _)
FindRouteNoBreak(rs, url, i) ==
    IF i > Len(rs) THEN [found |-> FALSE, path |-> <<>>, target |-> <<>>]
    ELSE LET later == FindRouteNoBreak(rs, url, i + 1)
         IN  IF later.found THEN later
             ELSE IF StartsWith(url, rs[i].path)
             THEN [found |-> TRUE, path |-> rs[i].path, target |-> rs[i].target]
             ELSE later

\* the scan of useRuleBasedFallback: the first rule whose path starts the url
RECURSIVE FindRouteFrom(_, _, _)
FindRouteFrom(rs, url, i) ==
    IF i > Len(rs) THEN [found |-> FALSE, path |-> <<>>, target |-> <<>>]
    ELSE IF StartsWith(url, rs[i].path)
    THEN [found |-> TRUE, path |-> rs[i].path, target |-> rs[i].target]
    ELSE FindRouteFrom(rs, url, i + 1)

FindRoute(rs, url) == FindRouteFrom(rs, url, 1)

\* ------------------------------------------------------------- new URL(text)
RECURSIVE TrimLeft(_)
TrimLeft(s) == IF s # <<>> /\ s[1] \in Blank THEN TrimLeft(Tail(s)) ELSE s

RECURSIVE TrimRight(_)
TrimRight(s) ==
    IF s # <<>> /\ s[Len(s)] \in Blank THEN TrimRight(SubSeq(s, 1, Len(s) - 1)) ELSE s

RECURSIVE DropSlashes(_)
DropSlashes(s) == IF s # <<>> /\ s[1] = "/" THEN DropSlashes(Tail(s)) ELSE s

From(s, i) == SubSeq(s, i, Len(s))
Before(s, i) == SubSeq(s, 1, i - 1)

NoURL == [ok |-> FALSE, protocol |-> <<>>, host |-> <<>>, pathname |-> <<>>, search |-> <<>>]

\* path and query of a URL whose scheme and authority have been consumed
PathAndQuery(s, special) ==
    LET q == IndexOf(s, {"?"})
        rawPath == IF q = 0 THEN s ELSE Before(s, q)
        query == IF q = 0 THEN <<>> ELSE From(s, q)
    IN  [pathname |-> IF special /\ rawPath = <<>> THEN <<"/">> ELSE rawPath,
         search |-> IF query = <<"?">> THEN <<>> ELSE query]

\* "host:port" followed by path and query; a special scheme needs a host
ParseAuthority(scheme, s, special) ==
    LET e == IndexOf(s, {"/", "?"})
        auth == IF e = 0 THEN s ELSE Before(s, e)
        tail == IF e = 0 THEN <<>> ELSE From(s, e)
        c == IndexOf(auth, {":"})
        hostname == IF c = 0 THEN auth ELSE Before(auth, c)
        port == IF c = 0 THEN <<>> ELSE From(auth, c + 1)
        portOk == \A k \in 1..Len(port) : port[k] \in Digit
        defaultPort == \/ scheme = HTTP /\ port = <<"8", "0">>
                       \/ scheme = HTTPS /\ port = <<"4", "4", "3">>
        host == IF port = <<>> \/ defaultPort THEN hostname ELSE hostname \o <<":">> \o port
        pq == PathAndQuery(tail, special)
    IN  IF ~portOk \/ (special /\ hostname = <<>>) THEN NoURL
        ELSE [ok |-> TRUE, protocol |-> scheme \o <<":">>, host |-> host,
              pathname |-> pq.pathname, search |-> pq.search]

\* new URL(text) without a base: leading and trailing blanks are stripped, a
\* scheme is required, http(s) URLs need a host, other schemes do not.
\* (Texts are over the alphabet above: no "#", "@", "\", "[", upper case.)
ParseURL(text) ==
    LET s == TrimRight(TrimLeft(text))
        c == IndexOf(s, {":"})
        scheme == IF c = 0 THEN <<>> ELSE Before(s, c)
        schemeOk == /\ c > 1
                    /\ s[1] \in Alpha
                    /\ \A k \in 2..(c - 1) : s[k] \in Alpha \cup Digit \cup {"+", "-", "."}
        rest == IF c = 0 THEN <<>> ELSE From(s, c + 1)
        pq == PathAndQuery(rest, FALSE)
    IN  IF ~schemeOk THEN NoURL
        ELSE IF scheme \in {HTTP, HTTPS} THEN ParseAuthority(scheme, DropSlashes(rest), TRUE)
        ELSE IF StartsWith(rest, <<"/", "/">>) THEN ParseAuthority(scheme, From(rest, 3), FALSE)
        ELSE [ok |-> TRUE, protocol |-> scheme \o <<":">>, host |-> <<>>,
              pathname |-> pq.pathname, search |-> pq.search]

\* ------------------------------------------------- the configuration text
K_location == <<"l", "o", "c", "a", "t", "i", "o", "n">>
K_proxy_pass == <<"p", "r", "o", "x", "y", "_", "p", "a", "s", "s">>

\* the literal k stands in the text t at index i
LiteralAt(t, i, k) ==
    i + Len(k) - 1 <= Len(t) /\ SubSeq(t, i, i + Len(k) - 1) = k

\* the index after the longest run of characters of cs that starts at i
RECURSIVE SkipWhile(_, _, _)
SkipWhile(t, cs, i) ==
    IF i <= Len(t) /\ t[i] \in cs THEN SkipWhile(t, cs, i + 1) ELSE i

\* the index of the first character of cs at or after i, Len(t) + 1 when none
RECURSIVE SkipUntil(_, _, _)
SkipUntil(t, cs, i) ==
    IF i <= Len(t) /\ t[i] \notin cs THEN SkipUntil(t, cs, i + 1) ELSE i

NoMatch == [ok |-> FALSE, path |-> <<>>, target |-> <<>>, lastIndex |-> 0]

\* the end of locationRegex, \s+([^;]+); tried at index q, behind proxy_pass
\* \s+ takes the whole run of blanks and [^;]+ runs up to the first ";". When
\* the ";" follows the blanks at once, \s+ gives its last blank back and the
\* group captures that blank: this needs two blanks at least.
ProxyPassTarget(t, q) ==
    LET w == SkipWhile(t, Blank, q)
        s == SkipUntil(t, {";"}, w)
    IN  IF w = q \/ s > Len(t) THEN NoMatch
        ELSE IF s > w
        THEN [ok |-> TRUE, path |-> <<>>, target |-> SubSeq(t, w, s - 1), lastIndex |-> s + 1]
        ELSE IF w - q >= 2
        THEN [ok |-> TRUE, path |-> <<>>, target |-> SubSeq(t, w - 1, w - 1), lastIndex |-> s + 1]
        ELSE NoMatch

\* the middle of locationRegex, [^}]*proxy_pass, for a block whose body
\* starts at index b: [^}]* is greedy and cannot pass a "}", so the places of
\* proxy_pass are tried from the last one before the first "}" down to b
RECURSIVE BlockBody(_, _, _)
BlockBody(t, b, p) ==
    IF p < b THEN NoMatch
    ELSE LET r == IF LiteralAt(t, p, K_proxy_pass)
                  THEN ProxyPassTarget(t, p + Len(K_proxy_pass))
                  ELSE NoMatch
         IN  IF r.ok THEN r ELSE BlockBody(t, b, p - 1)

\* locationRegex, /location\s+([^\s{]+)\s*{[^}]*proxy_pass\s+([^;]+);/g, tried
\* at index i of the text; path is match[1], target is match[2].trim()
locationRegex(t, i) ==
    IF ~LiteralAt(t, i, K_location) THEN NoMatch
    ELSE LET j == i + Len(K_location)
             k == SkipWhile(t, Blank, j)
             m == SkipUntil(t, Blank \cup {"{"}, k)
             n == SkipWhile(t, Blank, m)
         IN  IF k = j \/ m = k \/ n > Len(t) THEN NoMatch
             ELSE IF t[n] # "{" THEN NoMatch
             ELSE LET r == BlockBody(t, n + 1, SkipUntil(t, {"}"}, n + 1) - 1)
                  IN  IF ~r.ok THEN NoMatch
                      ELSE [ok |-> TRUE, path |-> SubSeq(t, k, m - 1),
                            target |-> TrimRight(TrimLeft(r.target)),
                            lastIndex |-> r.lastIndex]

\* the while loop over locationRegex.exec: the leftmost match at or after
\* lastIndex is pushed and the search goes on behind it
RECURSIVE ExecFrom(_, _)
ExecFrom(t, i) ==
    LET starts == { k \in i..Len(t) : locationRegex(t, k).ok }
    IN  IF starts = {} THEN <<>>
        ELSE LET r == locationRegex(t, CHOOSE k \in starts : \A l \in starts : k <= l)
             IN  << [path |-> r.path, target |-> r.target] >> \o ExecFrom(t, r.lastIndex)

\* the rules parseNginxConfig pushes for the text of a file, in file order
ExtractRules(t) == ExecFrom(t, 1)

\* ------------------------------------------------ configuration files
\* pieces of unnamed/part_001 (nginclaude-proxy.conf) and of other files
S_server == <<"s", "e", "r", "v", "e", "r", " ", "{", "\n">>
S_close == <<"}", "\n">>
S_header == <<"p", "r", "o", "x", "y", "_", "s", "e", "t", "_", "h", "e", "a", "d", "e", "r", " ", "H", "o", "s", "t", " ", "$", "h", "o", "s", "t", ";", "\n">>
S_if == <<"i", "f", " ", "(", "$", "x", ")", " ", "{", " ", "r", "e", "t", "u", "r", "n", " ", "4", "0", "3", ";", " ", "}", "\n">>

\* the proxy_pass directive; a blank target leaves two blanks before the ";"
Directive(target) ==
    K_proxy_pass \o <<" ">> \o (IF target = T_blank THEN <<" ">> ELSE target) \o <<";", "\n">>

\* a location block: its proxy_pass alone, followed by another directive (as
\* in the shipped file), preceded by one, or preceded by a nested block
LocationBlock(b) ==
    K_location \o <<" ">> \o b.path \o <<" ", "{", "\n">>
        \o (CASE b.shape = "plain"  -> Directive(b.target)
              [] b.shape = "after"  -> Directive(b.target) \o S_header
              [] b.shape = "before" -> S_header \o Directive(b.target)
              [] b.shape = "nested" -> S_if \o Directive(b.target))
        \o S_close

RECURSIVE BlocksText(_)
BlocksText(bs) ==
    IF bs = <<>> THEN <<>> ELSE LocationBlock(Head(bs)) \o BlocksText(Tail(bs))

\* the text of a file: its location blocks, inside a server block or not
FileText(bs, wrapped) ==
    IF wrapped THEN S_server \o BlocksText(bs) \o S_close ELSE BlocksText(bs)

\* the file that holds the rules cfg, a location block for each
FileOf(cfg, shape, wrapped) ==
    FileText([i \in DOMAIN cfg |->
                 [path |-> cfg[i].path, target |-> cfg[i].target, shape |-> shape]],
             wrapped)

\* the location blocks of the files given to the loader alone
LoaderBlocks ==
    { [path |-> P_root, target |-> T_A,        shape |-> "plain"],
      [path |-> P_ab,   target |-> T_B,        shape |-> "plain"],
      [path |-> P_ab,   target |-> T_B,        shape |-> "after"],
      [path |-> P_ab,   target |-> T_B,        shape |-> "before"],
      [path |-> P_ab,   target |-> T_B,        shape |-> "nested"],
      [path |-> P_ab,   target |-> T_blank,    shape |-> "plain"],
      [path |-> P_ab,   target |-> T_upstream, shape |-> "plain"],
      [path |-> P_ab_q, target |-> T_B,        shape |-> "plain"] }

LoaderFiles ==
    { FileText(bs, wrapped) : bs \in SeqsUpTo(LoaderBlocks, MaxBlocks), wrapped \in BOOLEAN }

\* ------------------------------------------------------------------- state
VARIABLES
    file,       \* the text of the configuration file
    config,     \* the rules of the configuration file, in file order
    readable,   \* whether readFileSync can read the configuration file
    routes,     \* the module-level route table
    crashed,    \* the process has died of an uncaught exception
    req,        \* per request: the handler's position and what it has done
    probe,      \* the matcher applied on its own: a url and the rule found
    orch        \* the benchmark orchestrator: main's position and its children

vars == <<file, config, readable, routes, crashed, req, probe, orch>>

\* what is fixed when the module has loaded
loaded == <<file, config, readable, routes>>

Reqs == 1..NumReq

\* the requests a client sends: method, url (path plus query string), content
\* type and raw body
Requests ==
    { [method |-> "GET",  url |-> StatusPath, contentType |-> "none", body |-> <<>>],
      [method |-> "POST", url |-> StatusPath, contentType |-> "none", body |-> <<>>],
      [method |-> "POST", url |-> U_ab_q,     contentType |-> "text", body |-> B_text] }

\* the requests sent to the proxy run with the shipped configuration file
ShippedRequests ==
    { [method |-> "GET",  url |-> StatusPath,        contentType |-> "none", body |-> <<>>],
      [method |-> "GET",  url |-> U_status_q,        contentType |-> "none", body |-> <<>>],
      [method |-> "GET",  url |-> U_api_users,       contentType |-> "none", body |-> <<>>],
      [method |-> "GET",  url |-> U_about,           contentType |-> "none", body |-> <<>>],
      [method |-> "GET",  url |-> U_admin_dashboard, contentType |-> "none", body |-> <<>>],
      [method |-> "GET",  url |-> U_static_styles,   contentType |-> "none", body |-> <<>>],
      [method |-> "POST", url |-> U_api_users,       contentType |-> "json", body |-> B_json] }

\* the texts the inference service may answer with
Texts == { X_inTable, X_outside, X_noHost, X_bad }

\* the texts of an inference service that never names a target
ShippedTexts == { X_bad }

\* generateText's default maxRetries: a retryable failure of the call to the
\* inference service is retried this many times before generateText rejects
MaxRetries == 2

\* the error codes of a forward that fails before the upstream has answered:
\* connection refused, timed out, no route to the host
UpstreamErrors == { "ECONNREFUSED", "ETIMEDOUT", "EHOSTUNREACH" }

NewReq ==
    [pc |-> "new", method |-> "", url |-> <<>>, reqUrl |-> <<>>,
     contentType |-> "none", body |-> <<>>, bodyRead |-> FALSE,
     inference |-> "none", text |-> <<>>, calls |-> 0, attempt |-> 0,
     fallbackRuns |-> 0, forwards |-> <<>>, responses |-> <<>>, listed |-> <<>>]

\* the orchestrator before main is called
NoOrch == [main |-> "idle", exiting |-> FALSE, procs |-> <<>>]

NoProbe == [url |-> <<>>, result |-> [found |-> FALSE, path |-> <<>>, target |-> <<>>]]

Init ==
    /\ \/ readable = TRUE /\ file \in { FileOf(c, "plain", FALSE) : c \in ServedConfigs }
       \/ readable = FALSE /\ file \in { FileOf(c, "plain", FALSE) : c \in UnreadableConfigs }
    /\ config = ExtractRules(file)
    /\ routes = LoadRoutes(readable, config)
    /\ crashed = FALSE
    /\ req = [r \in Reqs |-> NewReq]
    /\ probe = NoProbe
    /\ orch = NoOrch

\* res.headersSent
HeadersSent(q) == q.responses # <<>>

\* a response written to the client; via is the forward it comes from, or 0.
\* Once the headers are sent no status line is written any more: what is
\* written then is recorded with status 0.
Respond(q, status, by, via) ==
    [q EXCEPT !.responses =
        Append(@, [status |-> IF HeadersSent(q) THEN 0 ELSE status, by |-> by, via |-> via])]

\* the outcome of the forward in flight
Settle(q, outcome) ==
    [q EXCEPT !.forwards[Len(q.forwards)].outcome = outcome]

\* the address of the client, the Host header it sent to the proxy, the
\* host and port of the proxy's target, and a header that is not there
ClientAddress == "client"
ProxyHost == "proxy"
TargetHost == "target"
NoHeader == "none"

\* the options the proxies are created with: the inference proxy and the
\* fallback proxy both set changeOrigin and neither sets xfwd
ProxyOptions(target) == [target |-> target, changeOrigin |-> TRUE, xfwd |-> FALSE]

\* the headers the proxy library sets on the outgoing request: changeOrigin
\* puts the target's host in Host, xfwd adds x-forwarded-for
OutgoingHeaders(opts) ==
    [host |-> IF opts.changeOrigin THEN TargetHost ELSE ProxyHost,
     forwardedFor |-> IF opts.xfwd THEN ClientAddress ELSE NoHeader]

\* proxy(req, res, next): the request stream is piped to the upstream; a
\* stream that was read before has nothing left to give
Forward(q, target, path, by) ==
    [q EXCEPT !.reqUrl = path,
              !.bodyRead = TRUE,
              !.forwards = Append(@, [target |-> target, path |-> path, by |-> by,
                                      headers |-> OutgoingHeaders(ProxyOptions(target)),
                                      body |-> IF q.bodyRead THEN <<>> ELSE q.body,
                                      outcome |-> "pending"])]

\* the proxy's own error handler, used when no onError option is given
ProxyErrorStatus(code) ==
    IF code \in {"ECONNRESET", "ENOTFOUND", "ECONNREFUSED", "ETIMEDOUT"} THEN 504
    ELSE 500

\* the entry of the status answer for one rule
FormatRoute(route) == route.path \o ArrowText \o route.target

\* variant: a request that no rule matches goes to the first target of the table
useRuleBasedFallbackDefaultTarget(q, url) ==
    LET m == FindRoute(routes, url)
        ran == [q EXCEPT !.fallbackRuns = @ + 1]
    IN  IF ~m.found \/ m.target = <<>>
        THEN IF routes = <<>>
             THEN [Respond(ran, 404, "fallback", 0) EXCEPT !.pc = "done"]
             ELSE [Forward(ran, routes[1].target, q.url, "fallback")
                   EXCEPT !.pc = "fallbackProxying"]
        ELSE [Forward(ran, m.target, q.url, "fallback") EXCEPT !.pc = "fallbackProxying"]

\* variant: the fallback forwards the url the last forward left in req.url
useRuleBasedFallbackRewrittenUrl(q, url) ==
    LET m == FindRoute(routes, url)
        ran == [q EXCEPT !.fallbackRuns = @ + 1]
    IN  IF ~m.found \/ m.target = <<>>
        THEN IF HeadersSent(q)
             THEN [ran EXCEPT !.pc = "thrown"]
             ELSE [Respond(ran, 404, "fallback", 0) EXCEPT !.pc = "done"]
        ELSE [Forward(ran, m.target, q.reqUrl, "fallback") EXCEPT !.pc = "fallbackProxying"]

\* useRuleBasedFallback(req, res, next, url). Its catch (fallbackError) has no
\* transition here: createProxyMiddleware does not throw for a non-empty
\* target, and the proxy middleware reports its errors through next and the
\* error event, not by throwing.
useRuleBasedFallback(q, url) ==
    LET m == FindRoute(routes, url)
        ran == [q EXCEPT !.fallbackRuns = @ + 1]
    IN  IF ~m.found \/ m.target = <<>>
        THEN IF HeadersSent(q)
             THEN \* res.status(404).send(...) throws ERR_HTTP_HEADERS_SENT
                  [ran EXCEPT !.pc = "thrown"]
             ELSE [Respond(ran, 404, "fallback", 0) EXCEPT !.pc = "done"]
        ELSE \* fallbackProxy(req, res, next): the proxy restores req.url from
             \* req.originalUrl and forwards it to the rule's target
             [Forward(ran, m.target, q.url, "fallback") EXCEPT !.pc = "fallbackProxying"]

\* the request as the middleware receives it: express.json() has read the
\* stream of a JSON body
Received(q, c) ==
    [q EXCEPT !.method = c.method, !.url = c.url, !.reqUrl = c.url,
              !.contentType = c.contentType, !.body = c.body,
              !.bodyRead = (c.contentType = "json")]

\* next() for the status path: app.get('/proxy-status') answers a GET with the
\* route table, the router's final handler answers everything else
StatusAnswer(q) ==
    IF q.method = "GET"
    THEN [Respond(q, 200, "status", 0)
          EXCEPT !.pc = "done",
                 !.listed = [i \in DOMAIN routes |-> FormatRoute(routes[i])]]
    ELSE [Respond(q, 404, "express", 0) EXCEPT !.pc = "done"]

\* the call of generateText
CallInference(q) ==
    [q EXCEPT !.pc = "await", !.inference = "pending", !.calls = @ + 1, !.attempt = 1]

\* the middleware up to its await, for a request drawn from cs: the status
\* path is skipped, every other request builds the prompt and calls generateText
ArriveFrom(r, cs) ==
    /\ ~crashed
    /\ req[r].pc = "new"
    /\ \E c \in cs :
         LET q == Received(req[r], c)
         IN  IF c.url = StatusPath
             THEN req' = [req EXCEPT ![r] = StatusAnswer(q)]
             ELSE req' = [req EXCEPT ![r] = CallInference(q)]
    /\ UNCHANGED <<orch, loaded, crashed, probe>>

\* variant: the rules are tried before the inference service is asked
ArriveRulesFirst(r) ==
    /\ ~crashed
    /\ req[r].pc = "new"
    /\ \E c \in Requests :
         LET q == Received(req[r], c)
         IN  IF c.url = StatusPath
             THEN req' = [req EXCEPT ![r] = StatusAnswer(q)]
             ELSE IF FindRoute(routes, c.url).found
             THEN req' = [req EXCEPT ![r] = useRuleBasedFallback(q, c.url)]
             ELSE req' = [req EXCEPT ![r] = CallInference(q)]
    /\ UNCHANGED <<orch, loaded, crashed, probe>>

\* variant: the inference call blocks the server, no request is accepted
\* while a call is pending
ArriveOneAtATime(r) ==
    /\ \A s \in Reqs : req[s].pc # "await"
    /\ ArriveFrom(r, Requests)

Arrive(r) == ArriveFrom(r, Requests)

\* a call to the inference service fails in a way generateText retries
InferenceAttemptFails(r) ==
    /\ ~crashed
    /\ req[r].pc = "await"
    /\ req[r].attempt <= MaxRetries
    /\ req' = [req EXCEPT ![r].attempt = @ + 1]
    /\ UNCHANGED <<orch, loaded, crashed, probe>>

\* generateText resolves with a text drawn from ts: the inner try
InferenceReturnsFrom(r, ts) ==
    /\ ~crashed
    /\ req[r].pc = "await"
    /\ \E text \in ts :
         LET q == [req[r] EXCEPT !.inference = "text", !.text = text, !.attempt = 0]
             u == ParseURL(text)
             target == u.protocol \o <<"/", "/">> \o u.host
             newPath == u.pathname \o u.search
         IN  IF u.ok
             THEN \* proxy(req, res, next): pathRewrite replaces req.url
                  req' = [req EXCEPT ![r] =
                            [Forward(q, target, newPath, "inference") EXCEPT !.pc = "proxying"]]
             ELSE \* catch (urlError)
                  req' = [req EXCEPT ![r] = useRuleBasedFallback(q, q.url)]
    /\ crashed' = (req'[r].pc = "thrown")
    /\ UNCHANGED <<orch, loaded, probe>>

\* variant: the inferred URL names the target only, the request keeps its path
InferenceReturnsKeepsPath(r) ==
    /\ ~crashed
    /\ req[r].pc = "await"
    /\ \E text \in Texts :
         LET q == [req[r] EXCEPT !.inference = "text", !.text = text, !.attempt = 0]
             u == ParseURL(text)
             target == u.protocol \o <<"/", "/">> \o u.host
         IN  IF u.ok
             THEN req' = [req EXCEPT ![r] =
                            [Forward(q, target, q.url, "inference") EXCEPT !.pc = "proxying"]]
             ELSE req' = [req EXCEPT ![r] = useRuleBasedFallback(q, q.url)]
    /\ crashed' = (req'[r].pc = "thrown")
    /\ UNCHANGED <<orch, loaded, probe>>

\* variant: an inferred target is honoured only when a rule names it
InferenceReturnsListedOnly(r) ==
    /\ ~crashed
    /\ req[r].pc = "await"
    /\ \E text \in Texts :
         LET q == [req[r] EXCEPT !.inference = "text", !.text = text, !.attempt = 0]
             u == ParseURL(text)
             target == u.protocol \o <<"/", "/">> \o u.host
             newPath == u.pathname \o u.search
         IN  IF u.ok /\ target \in { routes[i].target : i \in DOMAIN routes }
             THEN req' = [req EXCEPT ![r] =
                            [Forward(q, target, newPath, "inference") EXCEPT !.pc = "proxying"]]
             ELSE req' = [req EXCEPT ![r] = useRuleBasedFallback(q, q.url)]
    /\ crashed' = (req'[r].pc = "thrown")
    /\ UNCHANGED <<orch, loaded, probe>>

\* variant: a target the inference service chose is added to the route table
InferenceReturnsLearnsRoute(r) ==
    /\ ~crashed
    /\ req[r].pc = "await"
    /\ \E text \in Texts :
         LET q == [req[r] EXCEPT !.inference = "text", !.text = text, !.attempt = 0]
             u == ParseURL(text)
             target == u.protocol \o <<"/", "/">> \o u.host
             newPath == u.pathname \o u.search
         IN  IF u.ok
             THEN /\ req' = [req EXCEPT ![r] =
                            [Forward(q, target, newPath, "inference") EXCEPT !.pc = "proxying"]]
                  /\ routes' = Append(routes, [path |-> q.url, target |-> target])
             ELSE /\ req' = [req EXCEPT ![r] = useRuleBasedFallback(q, q.url)]
                  /\ routes' = routes
    /\ crashed' = (req'[r].pc = "thrown")
    /\ UNCHANGED <<orch, file, config, readable, probe>>

InferenceReturns(r) == InferenceReturnsFrom(r, Texts)

\* variant: the inference error is answered to the client
InferenceThrowsSurfaced(r) ==
    /\ ~crashed
    /\ req[r].pc = "await"
    /\ LET q == [req[r] EXCEPT !.inference = "error", !.attempt = 0]
       IN  req' = [req EXCEPT ![r] = [Respond(q, 500, "engine", 0) EXCEPT !.pc = "done"]]
    /\ UNCHANGED <<orch, loaded, crashed, probe>>

\* variant: a second catch around the first runs the fallback again
InferenceThrowsTwoLayers(r) ==
    /\ ~crashed
    /\ req[r].pc = "await"
    /\ LET q == [req[r] EXCEPT !.inference = "error", !.attempt = 0]
           first == useRuleBasedFallback(q, q.reqUrl)
       IN  req' = [req EXCEPT ![r] = useRuleBasedFallback(first, q.url)]
    /\ crashed' = (req'[r].pc = "thrown")
    /\ UNCHANGED <<orch, loaded, probe>>

\* generateText rejects: catch (error)
InferenceThrows(r) ==
    /\ ~crashed
    /\ req[r].pc = "await"
    /\ LET q == [req[r] EXCEPT !.inference = "error", !.attempt = 0]
       IN  req' = [req EXCEPT ![r] = useRuleBasedFallback(q, q.reqUrl)]
    /\ crashed' = (req'[r].pc = "thrown")
    /\ UNCHANGED <<orch, loaded, probe>>

\* the upstream answers and its response is piped to the client
UpstreamResponds(r) ==
    /\ ~crashed
    /\ req[r].pc \in {"proxying", "fallbackProxying"}
    /\ req' = [req EXCEPT ![r] =
                [Respond(Settle(req[r], "ok"), 200, "upstream", Len(req[r].forwards))
                 EXCEPT !.pc = "done"]]
    /\ UNCHANGED <<orch, loaded, crashed, probe>>

\* variant: every failed forward, the fallback's own included, runs the fallback
UpstreamFailsAlwaysFallback(r) ==
    /\ ~crashed
    /\ req[r].pc \in {"proxying", "fallbackProxying"}
    /\ req' = [req EXCEPT ![r] = useRuleBasedFallback(Settle(req[r], "error"), req[r].url)]
    /\ crashed' = (req'[r].pc = "thrown")
    /\ UNCHANGED <<orch, loaded, probe>>

\* the forward fails before the upstream has answered: the proxy's error event
UpstreamFails(r) ==
    /\ ~crashed
    /\ req[r].pc \in {"proxying", "fallbackProxying"}
    /\ \E code \in UpstreamErrors :
         IF req[r].pc = "proxying"
         THEN \* options.onError
              req' = [req EXCEPT ![r] =
                        useRuleBasedFallback(Settle(req[r], "error"), req[r].url)]
         ELSE \* no onError option: the proxy's own error handler answers
              req' = [req EXCEPT ![r] =
                        [Respond(Settle(req[r], "error"), ProxyErrorStatus(code), "proxy",
                                 Len(req[r].forwards))
                         EXCEPT !.pc = "done"]]
    /\ crashed' = (req'[r].pc = "thrown")
    /\ UNCHANGED <<orch, loaded, probe>>

\* the upstream answers, its status line and headers are sent to the client,
\* and the upstream connection is reset before the body is complete: the
\* proxy's error event with the headers already sent
UpstreamResets(r) ==
    /\ ~crashed
    /\ req[r].pc \in {"proxying", "fallbackProxying"}
    /\ LET n == Len(req[r].forwards)
           q == Respond(Settle(req[r], "reset"), 200, "upstream", n)
       IN  IF req[r].pc = "proxying"
           THEN \* options.onError, called from the proxy's event emitter
                req' = [req EXCEPT ![r] = useRuleBasedFallback(q, q.url)]
           ELSE \* the proxy's own error handler: no writeHead, res.end
                req' = [req EXCEPT ![r] = [q EXCEPT !.pc = "done"]]
    /\ crashed' = (req'[r].pc = "thrown")
    /\ UNCHANGED <<orch, loaded, probe>>

Next ==
    \E r \in Reqs :
        \/ Arrive(r)
        \/ InferenceAttemptFails(r)
        \/ InferenceReturns(r)
        \/ InferenceThrows(r)
        \/ UpstreamResponds(r)
        \/ UpstreamFails(r)
        \/ UpstreamResets(r)

Spec == Init /\ [][Next]_vars

\* --------------------------------- the proxy run with the shipped configuration
\* the inference service is down or answers without naming a target
ShippedInit ==
    /\ readable = TRUE
    /\ file \in { FileOf(c, "after", TRUE) : c \in ShippedConfigs }
    /\ config = ExtractRules(file)
    /\ routes = LoadRoutes(readable, config)
    /\ crashed = FALSE
    /\ req = [r \in Reqs |-> NewReq]
    /\ probe = NoProbe
    /\ orch = NoOrch

ShippedNext ==
    \E r \in Reqs :
        \/ ArriveFrom(r, ShippedRequests)
        \/ InferenceAttemptFails(r)
        \/ InferenceReturnsFrom(r, ShippedTexts)
        \/ InferenceThrows(r)
        \/ UpstreamResponds(r)
        \/ UpstreamFails(r)
        \/ UpstreamResets(r)

ShippedSpec == ShippedInit /\ [][ShippedNext]_vars

\* ------------------------------------------- the loader and the matcher alone
ProbeUrls == { U_ab, U_ab_q, U_ab_z, U_b, U_a_q, StatusPath, U_status_q }

MatchInit ==
    /\ readable = TRUE
    /\ file \in { FileOf(c, "plain", FALSE) : c \in Configs }
    /\ config = ExtractRules(file)
    /\ routes = LoadRoutes(readable, config)
    /\ crashed = FALSE
    /\ req = [r \in Reqs |-> NewReq]
    /\ probe = NoProbe
    /\ orch = NoOrch

\* the scan of useRuleBasedFallback over the loaded table
Match(u) ==
    /\ probe' = [url |-> u, result |-> FindRoute(routes, u)]
    /\ UNCHANGED <<orch, loaded, crashed, req>>

MatchNext == \E u \in ProbeUrls : Match(u)

MatchSpec == MatchInit /\ [][MatchNext]_vars

\* ------------------------------------------------------- the loader alone
\* parseNginxConfig applied to configuration texts, and the matcher applied
\* to the table it returns
LoaderInit ==
    /\ readable = TRUE
    /\ file \in LoaderFiles
    /\ config = ExtractRules(file)
    /\ routes = LoadRoutes(readable, config)
    /\ crashed = FALSE
    /\ req = [r \in Reqs |-> NewReq]
    /\ probe = NoProbe
    /\ orch = NoOrch

LoaderSpec == LoaderInit /\ [][MatchNext]_vars

\* ------------------------------------------------- the hard-coded rule chains
\* index.js, the fallback of the inner catch
indexFallback(url) ==
    IF StartsWith(url, P_api) THEN T_8001
    ELSE IF StartsWith(url, P_admin) THEN T_8003
    ELSE IF StartsWith(url, P_static) THEN T_8004
    ELSE T_8002

\* index.js, the "ultimate fallback" of the outer catch
indexUltimateFallback(path) ==
    IF StartsWith(path, P_api) THEN T_8001
    ELSE IF StartsWith(path, P_admin) THEN T_8003
    ELSE IF StartsWith(path, P_static) THEN T_8004
    ELSE T_8002

\* the simple proxy, which routes without inference
simpleProxy(path) ==
    IF StartsWith(path, P_api) THEN T_8001
    ELSE IF StartsWith(path, P_admin) THEN T_8003
    ELSE IF StartsWith(path, P_static) THEN T_8004
    ELSE T_8002

\* request urls as the http server hands them over: origin-form, the
\* asterisk-form of OPTIONS *, and the absolute-form of a proxy request
U_star == <<"*">>
U_absolute == <<"h", "t", "t", "p", ":", "/", "/", "l", "o", "c", "a", "l", "h", "o", "s", "t", ":", "3", "0", "0", "0", "/", "a", "p", "i">>
ChainHeads == { P_root, P_api, P_admin, P_static, U_about, U_star, U_absolute }
ChainTails == { <<>>, <<"/">>, <<"2">>, <<"?", "q">>, <<"/", "x">>, <<"/", "u", "s", "e", "r", "s">> }
ChainUrls == { h \o t : h \in ChainHeads, t \in ChainTails }

\* the scan of useRuleBasedFallback over the table of the shipped file
ChainNext == \E u \in ChainUrls : Match(u)

ChainSpec == ShippedInit /\ [][ChainNext]_vars

\* ------------------------------------------------ the benchmark orchestrator
\* the calls of spawnProcess in main: mock-backends, nginclaude, comparison-proxies
NumChildren == 3

\* the exit codes a child closes with
ExitCodes == { 0, 1 }

\* spawnProcess up to its return: the child is spawned, the promise is
\* pending, the startup timer is armed
NewProc ==
    [promise |-> "pending", timer |-> "armed", state |-> "running",
     ready |-> FALSE, errored |-> FALSE, killed |-> FALSE]

\* resolve and reject settle a pending promise and leave a settled one alone
Settled(c, how) == IF c.promise = "pending" THEN [c EXCEPT !.promise = how] ELSE c

\* clearTimeout(timeout)
ClearTimeout(c) == IF c.timer = "armed" THEN [c EXCEPT !.timer = "cleared"] ELSE c

\* cleanup: every child not yet killed is sent SIGTERM, and process.exit is
\* scheduled
cleanup(o) ==
    [o EXCEPT !.exiting = TRUE,
              !.procs = [i \in DOMAIN o.procs |-> [o.procs[i] EXCEPT !.killed = TRUE]]]

OrchInit ==
    /\ readable = FALSE
    /\ file = <<>>
    /\ config = <<>>
    /\ routes = <<>>
    /\ crashed = FALSE
    /\ req = [r \in Reqs |-> NewReq]
    /\ probe = NoProbe
    /\ orch = [main |-> "spawn", exiting |-> FALSE, procs |-> <<>>]

\* main calls spawnProcess and awaits its promise
MainSpawns ==
    /\ orch.main = "spawn"
    /\ Len(orch.procs) < NumChildren
    /\ orch' = [orch EXCEPT !.main = "await",
                            !.procs = Append(@, NewProc)]
    /\ UNCHANGED <<loaded, crashed, req, probe>>

\* the awaited promise is resolved: main goes on to the next child, or to
\* the benchmark behind the last one
MainResumes ==
    /\ orch.main = "await"
    /\ orch.procs[Len(orch.procs)].promise = "resolved"
    /\ orch' = [orch EXCEPT !.main = IF Len(orch.procs) < NumChildren THEN "spawn" ELSE "benchmark"]
    /\ UNCHANGED <<loaded, crashed, req, probe>>

\* the awaited promise is rejected: the catch of main calls cleanup
MainCatches ==
    /\ orch.main = "await"
    /\ orch.procs[Len(orch.procs)].promise = "rejected"
    /\ orch' = cleanup([orch EXCEPT !.main = "caught"])
    /\ UNCHANGED <<loaded, crashed, req, probe>>

\* runBenchmark returns or throws: cleanup is called on both ways
BenchmarkEnds ==
    /\ orch.main = "benchmark"
    /\ orch' = cleanup([orch EXCEPT !.main = "finished"])
    /\ UNCHANGED <<loaded, crashed, req, probe>>

\* SIGINT or SIGTERM is sent to the orchestrator: the handler is cleanup
Signal ==
    /\ orch.main # "exited"
    /\ ~orch.exiting
    /\ orch' = cleanup(orch)
    /\ UNCHANGED <<loaded, crashed, req, probe>>

\* the timer of cleanup fires: process.exit(0)
Exits ==
    /\ orch.exiting
    /\ orch.main # "exited"
    /\ orch' = [orch EXCEPT !.main = "exited"]
    /\ UNCHANGED <<loaded, crashed, req, probe>>

\* the child prints the line that tells it is ready
StdoutReady(i) ==
    /\ orch.main # "exited"
    /\ i \in DOMAIN orch.procs
    /\ orch.procs[i].state = "running"
    /\ ~orch.procs[i].ready
    /\ orch' = [orch EXCEPT !.procs[i] = Settled([@ EXCEPT !.ready = TRUE], "resolved")]
    /\ UNCHANGED <<loaded, crashed, req, probe>>

\* the startup timer fires after 10 seconds
TimerFires(i) ==
    /\ orch.main # "exited"
    /\ i \in DOMAIN orch.procs
    /\ orch.procs[i].timer = "armed"
    /\ orch' = [orch EXCEPT !.procs[i] =
                   LET c == [@ EXCEPT !.timer = "fired"]
                   IN  IF ~c.killed THEN Settled(c, "resolved") ELSE c]
    /\ UNCHANGED <<loaded, crashed, req, probe>>

\* the child emits 'error'
ChildError(i) ==
    /\ orch.main # "exited"
    /\ i \in DOMAIN orch.procs
    /\ orch.procs[i].state = "running"
    /\ ~orch.procs[i].errored
    /\ orch' = [orch EXCEPT !.procs[i] =
                   Settled(ClearTimeout([@ EXCEPT !.errored = TRUE]), "rejected")]
    /\ UNCHANGED <<loaded, crashed, req, probe>>

\* the child emits 'close' with its exit code
ChildClose(i) ==
    /\ orch.main # "exited"
    /\ i \in DOMAIN orch.procs
    /\ orch.procs[i].state = "running"
    /\ \E code \in ExitCodes :
         orch' = [orch EXCEPT !.procs[i] =
                     LET c == ClearTimeout([@ EXCEPT !.state = "closed"])
                     IN  IF code # 0 /\ ~c.killed THEN Settled(c, "rejected") ELSE c]
    /\ UNCHANGED <<loaded, crashed, req, probe>>

OrchNext ==
    \/ MainSpawns
    \/ MainResumes
    \/ MainCatches
    \/ BenchmarkEnds
    \/ Signal
    \/ Exits
    \/ \E i \in 1..NumChildren :
          \/ StdoutReady(i)
          \/ TimerFires(i)
          \/ ChildError(i)
          \/ ChildClose(i)

\* main runs on when it can, an armed timer fires, a scheduled exit happens;
\* nothing makes a child print, fail or close
OrchSpec ==
    /\ OrchInit
    /\ [][OrchNext]_vars
    /\ WF_vars(MainSpawns \/ MainResumes \/ MainCatches \/ BenchmarkEnds \/ Exits)
    /\ \A i \in 1..NumChildren : WF_vars(TimerFires(i))

\* ---------------------------------------------------------------- fairness
\* Forwards complete or fail; nothing in the handler bounds generateText.
LiveSpec ==
    /\ Init
    /\ [][Next]_vars
    /\ \A r \in Reqs : WF_vars(UpstreamResponds(r) \/ UpstreamFails(r))

\* ------------------------------------------------------------------ helpers
Min(S) == CHOOSE x \in S : \A y \in S : x <= y

\* the positions of the rules of table t whose prefix starts url u
Matching(t, u) == { i \in DOMAIN t : StartsWith(u, t[i].path) }

\* the part of a url before its query string
PathOf(u) == IF IndexOf(u, {"?"}) = 0 THEN u ELSE Before(u, IndexOf(u, {"?"}))

InferenceFailed(q) ==
    \/ q.inference = "error"
    \/ q.inference = "text" /\ ~ParseURL(q.text).ok

\* ------------------------------------------------------------------- claims

\* C1: every request that is not for the status path eventually reaches a
\* terminal outcome, also when its inference call never answers.
C1_EveryRequestResolved ==
    \A r \in Reqs : (req[r].pc = "await") ~> (req[r].pc = "done")

\* C2: when the inference call fails or its text does not parse as a URL, the
\* final routing decision is the matcher's decision for the request URL over
\* the loaded table: the target of the first rule whose prefix starts the
\* URL, or NoMatchingRoute (404, nothing forwarded) when there is none.
C2_FallbackEqualsMatcher ==
    \A r \in Reqs :
        InferenceFailed(req[r]) =>
            LET m == Matching(routes, req[r].url)
                q == req[r]
            IN  IF m = {}
                THEN /\ q.forwards = <<>>
                     /\ q.responses = << [status |-> 404, by |-> "fallback", via |-> 0] >>
                ELSE /\ Len(q.forwards) = 1
                     /\ q.forwards[1].by = "fallback"
                     /\ q.forwards[1].target = routes[Min(m)].target

C2_Witness ==
    \E r \in Reqs :
        /\ req[r].inference = "text"
        /\ ~ParseURL(req[r].text).ok
        /\ Cardinality(Matching(routes, req[r].url)) >= 2
        /\ req[r].forwards # <<>>

\* C3: when several rules of differing prefix lengths match the path, the
\* matcher selects a rule with the longest matching prefix, and the root rule
\* "/" is selected only when no other rule matches.
C3_LongestPrefixWins ==
    probe # NoProbe =>
        LET m == Matching(config, probe.url)
        IN  m # {} =>
              /\ probe.result.found
              /\ \E i \in m :
                    /\ config[i].path = probe.result.path
                    /\ config[i].target = probe.result.target
                    /\ \A j \in m : Len(config[j].path) <= Len(config[i].path)
                    /\ config[i].path = P_root => \A j \in m : config[j].path = P_root

C3_Witness ==
    /\ probe # NoProbe
    /\ \E i, j \in DOMAIN config :
          /\ i < j
          /\ {i, j} \subseteq Matching(config, probe.url)
          /\ Len(config[i].path) < Len(config[j].path)
          /\ probe.result.path = config[j].path

\* the orderings of configuration c that move rules only among the positions
\* held by rules of the same prefix length
SameLengthOrderings(c) ==
    { [i \in DOMAIN c |-> c[f[i]]] :
        f \in { g \in [DOMAIN c -> DOMAIN c] :
                    /\ \A i, j \in DOMAIN c : i # j => g[i] # g[j]
                    /\ \A i \in DOMAIN c : Len(c[g[i]].path) = Len(c[i].path) } }

NoConflictingDuplicates(c) ==
    \A i, j \in DOMAIN c : c[i].path = c[j].path => c[i].target = c[j].target

\* C4 (as stated): the matcher's result is the same for every configuration
\* file ordering of the rules that share a prefix length, two rules with the
\* identical prefix and different targets included.
C4_AnyOrderSameResult ==
    probe # NoProbe =>
        \A c \in SameLengthOrderings(config) :
            FindRoute(parseNginxConfig(c), probe.url) = probe.result

\* C4 (amended): the matcher's result is the same for every configuration file
\* ordering of the rules that share a prefix length, provided no two rules
\* have the identical prefix with different targets.
C4_AnyOrderSameResultNoDuplicates ==
    (probe # NoProbe /\ NoConflictingDuplicates(config)) =>
        \A c \in SameLengthOrderings(config) :
            FindRoute(parseNginxConfig(c), probe.url) = probe.result

C4_Witness ==
    /\ probe # NoProbe
    /\ NoConflictingDuplicates(config)
    /\ probe.result.found
    /\ \E c \in SameLengthOrderings(config) : c # config
    /\ \E i, j \in DOMAIN config :
          /\ config[i].path # config[j].path
          /\ Len(config[i].path) = Len(config[j].path)
          /\ probe.result.path = config[j].path

\* the scheme, host and port of a request's inference text
InferredTarget(q) == ParseURL(q.text).protocol \o <<"/", "/">> \o ParseURL(q.text).host

TableTargets == { routes[i].target : i \in DOMAIN routes }

E_9 == <<"h", "t", "t", "p", ":", "/", "/", "e", ":", "9">>

\* C5: when inference returns a syntactically valid absolute URL, the request
\* is forwarded to that URL's scheme, host and port, whether or not a rule of
\* the table has that target.
C5_InferenceTargetHonoured ==
    \A r \in Reqs :
        (req[r].inference = "text" /\ ParseURL(req[r].text).ok) =>
            /\ req[r].forwards # <<>>
            /\ req[r].forwards[1].by = "inference"
            /\ req[r].forwards[1].target = InferredTarget(req[r])
            /\ req[r].text = X_outside => req[r].forwards[1].target = E_9
            /\ req[r].text = X_inTable => req[r].forwards[1].target = T_A

C5_Witness ==
    \E r \in Reqs :
        /\ req[r].text = X_outside
        /\ routes # <<>>
        /\ req[r].forwards[1].target \notin TableTargets
        /\ req[r].forwards[1].outcome = "ok"
        /\ req[r].responses # <<>>

C7_InferenceFailureAbsorbed ==
    \A r \in Reqs :
        InferenceFailed(req[r]) =>
            /\ req[r].fallbackRuns >= 1
            /\ req[r].pc = "done" => req[r].responses # <<>>
            /\ \A i \in DOMAIN req[r].responses :
                  LET a == req[r].responses[i]
                  IN  \/ a.by = "fallback" /\ a.status = 404 /\ a.via = 0
                      \/ /\ a.via \in DOMAIN req[r].forwards
                         /\ req[r].forwards[a.via].by = "fallback"

C7_Witness ==
    \E r \in Reqs :
        /\ req[r].inference = "error"
        /\ req[r].pc = "done"
        /\ req[r].responses # <<>>

\* C8: inference is consulted first: the matcher never runs for a request
\* before the request's inference attempt has returned or failed, and no
\* request is forwarded without an inference attempt having been made for it.
C8_InferenceFirst ==
    \A r \in Reqs :
        /\ req[r].fallbackRuns > 0 => req[r].inference \in {"text", "error"}
        /\ req[r].forwards # <<>> => req[r].calls >= 1
        /\ (req[r].pc # "new" /\ req[r].url # StatusPath) => req[r].calls >= 1

C8_Witness ==
    \E r \in Reqs :
        /\ req[r].fallbackRuns > 0
        /\ req[r].forwards # <<>>
        /\ req[r].forwards[1].by = "fallback"

\* C9: a request for the status path bypasses routing, for every method and
\* every query string: no inference call, no matcher run, nothing forwarded;
\* every other path goes through the engine.
C9_StatusPathBypassesRouting ==
    \A r \in Reqs :
        req[r].pc # "new" =>
            IF PathOf(req[r].url) = StatusPath
            THEN req[r].calls = 0 /\ req[r].fallbackRuns = 0 /\ req[r].forwards = <<>>
            ELSE req[r].calls >= 1

\* C10: a request is forwarded on the inference text only when the text
\* parses as an absolute URL with a scheme and a non-empty host; every other
\* text leads to the fallback.
C10_AcceptedOnlyWithHost ==
    \A r \in Reqs :
        req[r].inference = "text" =>
            IF ParseURL(req[r].text).ok /\ ParseURL(req[r].text).host # <<>>
            THEN req[r].forwards # <<>> /\ req[r].forwards[1].by = "inference"
            ELSE req[r].fallbackRuns >= 1 /\ \A i \in DOMAIN req[r].forwards :
                                                req[r].forwards[i].by = "fallback"

\* C11: with the table /api -> 8001, /admin -> 8003, /static -> 8004,
\* / -> 8002 and inference failing, every request is routed by its prefix:
\* /api/users to 8001, /about to 8002, /admin/dashboard to 8003 and
\* /static/styles.css to 8004, and the path sent upstream is the request's own.
C11_ShippedTableRouting ==
    config = ShippedConfig =>
        \A r \in Reqs :
            InferenceFailed(req[r]) =>
                LET q == req[r]
                IN  /\ Len(q.forwards) = 1
                    /\ q.forwards[1].by = "fallback"
                    /\ q.forwards[1].path = q.url
                    /\ q.url = U_api_users => q.forwards[1].target = T_8001
                    /\ q.url = U_about => q.forwards[1].target = T_8002
                    /\ q.url = U_admin_dashboard => q.forwards[1].target = T_8003
                    /\ q.url = U_static_styles => q.forwards[1].target = T_8004

C11_Witness ==
    /\ config = ShippedConfig
    /\ \E r, s \in Reqs :
          /\ req[r].url = U_admin_dashboard
          /\ req[r].inference = "error"
          /\ req[r].forwards[1].outcome = "ok"
          /\ req[s].url = U_about
          /\ req[s].inference = "text"
          /\ req[s].forwards # <<>>

HasRootRule(t) == \E i \in DOMAIN t : t[i].path = P_root

\* C12: when the table has no "/" rule, no rule's prefix starts the request
\* url and inference fails, the request ends in NoMatchingRoute: the client
\* gets the fallback's 404 and nothing is forwarded to any target.
C12_NoMatchingRoute ==
    \A r \in Reqs :
        (/\ InferenceFailed(req[r])
         /\ ~HasRootRule(routes)
         /\ Matching(routes, req[r].url) = {}) =>
            /\ req[r].forwards = <<>>
            /\ req[r].responses = << [status |-> 404, by |-> "fallback", via |-> 0] >>
            /\ req[r].pc = "done"

C12_Witness ==
    \E r \in Reqs :
        /\ routes # <<>>
        /\ ~HasRootRule(routes)
        /\ req[r].url = U_about
        /\ req[r].inference = "error"
        /\ req[r].responses = << [status |-> 404, by |-> "fallback", via |-> 0] >>

\* C13: when the configuration file cannot be read, or no rule is extracted
\* from it, the loader yields the empty table and the proxy serves all the
\* same: every request that is not for the status path has its inference
\* call made, ends in the fallback's 404 when inference fails, and is
\* forwarded to the inferred target when inference returns a valid URL.
C13_EmptyTableStillServes ==
    (~readable \/ config = <<>>) =>
        /\ routes = <<>>
        /\ \A r \in Reqs :
              LET q == req[r]
              IN  /\ (q.pc # "new" /\ q.url # StatusPath) => q.calls = 1
                  /\ InferenceFailed(q) =>
                        /\ q.forwards = <<>>
                        /\ q.responses = << [status |-> 404, by |-> "fallback", via |-> 0] >>
                        /\ q.pc = "done"
                  /\ (q.inference = "text" /\ ParseURL(q.text).ok) =>
                        /\ q.forwards # <<>>
                        /\ q.forwards[1].by = "inference"
                        /\ q.forwards[1].target = InferredTarget(q)

C13_Witness ==
    /\ ~readable
    /\ config # <<>>
    /\ \E r, s \in Reqs :
          /\ req[r].inference = "error"
          /\ req[r].responses = << [status |-> 404, by |-> "fallback", via |-> 0] >>
          /\ req[s].text = X_outside
          /\ req[s].forwards[1].outcome = "ok"
          /\ req[s].pc = "done"

\* the gateway-error statuses
GatewayErrors == {502, 503, 504}

\* C14: a forward that fails to connect or times out is surfaced
\* to the client as a 502-class response made for that forward, whether its
\* target was chosen by inference or by the matcher.
C14_ForwardFailureSurfaced ==
    \A r \in Reqs :
        \A i \in DOMAIN req[r].forwards :
            req[r].forwards[i].outcome = "error" =>
                \E k \in DOMAIN req[r].responses :
                    /\ req[r].responses[k].via = i
                    /\ req[r].responses[k].status \in GatewayErrors

\* the responses that are not an upstream's: the fallback's, the proxy's own
\* error answer, the framework's
OwnResponses(q) ==
    { k \in DOMAIN q.responses : q.responses[k].by # "upstream" /\ q.responses[k].status # 0 }

\* C15: the only failure responses the proxy itself sends are the 404 of
\* NoMatchingRoute and the 502-class answer of an upstream connection error:
\* no response of its own carries another error status.
C15_OnlyTwoFailureStatuses ==
    \A r \in Reqs :
        \A k \in OwnResponses(req[r]) :
            req[r].responses[k].status >= 400 =>
                req[r].responses[k].status \in {404} \cup GatewayErrors

\* C16: no error raised while the forward is decided or set up terminates
\* the process: every exception, one raised inside the proxy error callback
\* or inside the fallback included, is caught.
C16_NoExceptionEscapes ==
    /\ ~crashed
    /\ \A r \in Reqs : req[r].pc # "thrown"

\* the table the loader produced at startup
StartupTable == LoadRoutes(readable, config)

\* C17: the route table is at all times the table the loader produced at
\* startup, and the route list of every status answer holds exactly its
\* rules, in its order: no handling step adds, removes or changes a rule,
\* and a target chosen by inference never appears in the list.
C17_StatusListsStartupTable ==
    /\ routes = StartupTable
    /\ \A r \in Reqs :
          (req[r].method = "GET" /\ req[r].url = StatusPath /\ req[r].pc = "done") =>
              /\ req[r].responses = << [status |-> 200, by |-> "status", via |-> 0] >>
              /\ Len(req[r].listed) = Len(StartupTable)
              /\ \A i \in DOMAIN StartupTable :
                    req[r].listed[i] =
                        StartupTable[i].path \o <<" ", "=", ">", " ">> \o StartupTable[i].target

C17_Witness ==
    \E r, s \in Reqs :
        /\ req[r].forwards # <<>>
        /\ req[r].forwards[1].by = "inference"
        /\ req[r].forwards[1].target \notin TableTargets
        /\ req[r].pc = "done"
        /\ req[s].url = StatusPath
        /\ req[s].listed # <<>>

\* C18: the body sent upstream with every forward is the raw body of the
\* original request, also for a request whose body express.json() has parsed
\* and for a forward made by the fallback.
C18_RawBodyForwarded ==
    \A r \in Reqs :
        \A i \in DOMAIN req[r].forwards :
            req[r].forwards[i].body = req[r].body

\* C19: every forward the fallback makes goes to the target of the matched
\* rule with the url of the original request, path and query string
\* unchanged, also when it follows a failed forward to an inference-chosen
\* target that was sent another path.
C19_FallbackKeepsOriginalUrl ==
    \A r \in Reqs :
        \A i \in DOMAIN req[r].forwards :
            req[r].forwards[i].by = "fallback" =>
                /\ req[r].forwards[i].path = req[r].url
                /\ Matching(routes, req[r].url) # {}
                /\ req[r].forwards[i].target = routes[Min(Matching(routes, req[r].url))].target

C19_Witness ==
    \E r \in Reqs :
        /\ Len(req[r].forwards) = 2
        /\ req[r].forwards[1].by = "inference"
        /\ req[r].forwards[1].outcome = "error"
        /\ req[r].forwards[1].path # req[r].url
        /\ req[r].forwards[2].by = "fallback"
        /\ req[r].forwards[2].outcome = "ok"
        /\ IndexOf(req[r].forwards[2].path, {"?"}) > 0

\* C20: the inference service is invoked at most once for a request: the
\* handler calls generateText once, and no failure of a call to the service
\* leads to a second call for the same request.
C20_InferenceInvokedOnce ==
    \A r \in Reqs :
        /\ req[r].calls <= 1
        /\ req[r].attempt <= 1

\* C21: sorting is idempotent: the loader's sort applied to the table it
\* produced gives that table again, also for tables with several "/" rules
\* or several rules of equal prefix length.
C21_SortIdempotent ==
    parseNginxConfig(routes) = routes

C21_Witness ==
    /\ routes # config
    /\ probe # NoProbe
    /\ \E i, j \in DOMAIN routes :
          i # j /\ routes[i].path = P_root /\ routes[j].path = P_root
             /\ routes[i].target # routes[j].target

\* C24: in the table the loader returns, every rule whose prefix is "/" comes
\* after every rule whose prefix is not "/", and among the rules whose prefix
\* is not "/" the prefix lengths do not increase from first to last.
C24_TableOrdered ==
    \A i, j \in DOMAIN routes :
        i < j =>
            /\ routes[i].path = P_root => routes[j].path = P_root
            /\ (routes[i].path # P_root /\ routes[j].path # P_root) =>
                  Len(routes[i].path) >= Len(routes[j].path)

C24_Witness ==
    /\ Len(config) >= 3
    /\ config[1].path = P_root
    /\ config[2].path # P_root
    /\ Len(config[2].path) < Len(config[3].path)
    /\ routes[1] = config[3]
    /\ routes[3] = config[1]

\* the rules of table t whose prefix has n characters, in the order of t
OfLength(t, n) == SelectSeq(t, LAMBDA x : Len(x.path) = n)

\* C25: the sort is stable: the rules of each prefix length, the "/" rules
\* among them, stand in the table in the relative order they have in the
\* configuration file.
C25_SortStable ==
    \A n \in 1..Len(P_ab) : OfLength(routes, n) = OfLength(config, n)

C25_Witness ==
    /\ routes # config
    /\ \E i, j \in DOMAIN config :
          /\ i < j
          /\ config[i].path # config[j].path
          /\ Len(config[i].path) = Len(config[j].path)
          /\ \E k \in DOMAIN config : k < i /\ config[k].path = P_root
    /\ \A c \in DOMAIN config : Len(config[c].path) <= Len(P_ab)

\* C22: a request suspended at its inference call blocks no other request:
\* while it waits, another request can be accepted, can have its own
\* inference call answered or failed, and can have its forward completed or
\* failed, so that it reaches its terminal outcome first.
C22_AwaitBlocksNoOne ==
    \A r, s \in Reqs :
        (r # s /\ req[r].pc = "await" /\ ~crashed) =>
            /\ req[s].pc = "new" => ENABLED Arrive(s)
            /\ req[s].pc = "await" =>
                  (ENABLED InferenceReturns(s)) /\ (ENABLED InferenceThrows(s))
            /\ req[s].pc \in {"proxying", "fallbackProxying"} =>
                  (ENABLED UpstreamResponds(s)) /\ (ENABLED UpstreamFails(s))

C22_Witness ==
    \E r, s \in Reqs :
        /\ r # s
        /\ req[r].pc = "await"
        /\ req[s].pc = "done"
        /\ req[s].calls = 1
        /\ req[s].forwards # <<>>
        /\ req[s].responses # <<>>

\* C23: requests are independent: a step taken for one request changes the
\* record of no other request and nothing that the handling of another
\* request reads, so that each request's outcome is decided by its own url,
\* inference result and upstream result alone.
C23_RequestsIndependent ==
    [][\A r \in Reqs :
          req'[r] # req[r] =>
              /\ \A s \in Reqs \ {r} : req'[s] = req[s]
              /\ routes' = routes
              /\ crashed' = crashed]_vars

\* C26: the fallback runs at most once for a request, whichever of its
\* callers runs it: the catch of an inference error, the catch of a text
\* that is no URL, or the error callback of the proxy.
C26_FallbackRunsOnce ==
    \A r \in Reqs :
        /\ req[r].fallbackRuns <= 1
        /\ InferenceFailed(req[r]) => req[r].fallbackRuns = 1
        /\ Len(req[r].forwards) = 2 => req[r].fallbackRuns = 1

C26_Witness ==
    \E r, s \in Reqs :
        /\ req[r].inference = "text"
        /\ ~ParseURL(req[r].text).ok
        /\ req[r].fallbackRuns = 1
        /\ req[r].pc = "done"
        /\ Len(req[s].forwards) = 2
        /\ req[s].forwards[1].outcome = "reset"
        /\ req[s].forwards[2].outcome = "error"
        /\ req[s].fallbackRuns = 1
        /\ req[s].pc = "done"

\* C27: at most one response is written to the client for a request: once a
\* response has been started or finished, neither the proxy error callback
\* nor the fallback nor a later upstream answer writes another status or body.
C27_OneResponse ==
    \A r \in Reqs : Len(req[r].responses) <= 1


\* C28: the fallback answers 404 "No matching route found" exactly when no
\* rule's prefix starts the request url; when some rule's prefix does, the
\* request is forwarded to the target of the first such rule of the table,
\* whatever the text of that target is.
C28_NotFoundIffNoMatch ==
    \A r \in Reqs :
        LET q == req[r]
            m == Matching(routes, q.url)
        IN  InferenceFailed(q) =>
                /\ (q.responses # <<>> /\ q.responses[1].status = 404) <=> (m = {})
                /\ m # {} =>
                      /\ q.forwards # <<>>
                      /\ q.forwards[1].by = "fallback"
                      /\ q.forwards[1].target = routes[Min(m)].target


\* the target names a scheme, a host and a port (a port that new URL does not
\* drop, as it drops 80 for http)
HasSchemeHostPort(t) ==
    LET u == ParseURL(t)
    IN  u.ok /\ u.host # <<>> /\ IndexOf(u.host, {":"}) > 1

\* C29: every rule of the table the loader produces has a non-empty prefix
\* and a target that is a well-formed absolute URL with scheme, host and
\* port, whatever configuration text the loader was given.
C29_RulesWellFormed ==
    \A i \in DOMAIN routes :
        /\ routes[i].path # <<>>
        /\ HasSchemeHostPort(routes[i].target)

\* the proxy_pass directives of a text; in the files of LoaderFiles each one
\* stands in a location block of its own
RuleStatements(t) == Cardinality({ i \in 1..Len(t) : LiteralAt(t, i, K_proxy_pass) })

\* C30: the loader extracts every rule statement of the configuration text,
\* at any nesting depth and also when the location block holds a nested block
\* or other statements before its proxy_pass: the table has as many rules as
\* the file has rule statements.
C30_AllRulesExtracted ==
    readable => Len(routes) = RuleStatements(file)


\* p is an initial piece of s, character by character
IsPrefixOf(p, s) == \E k \in 0..Len(s) : SubSeq(s, 1, k) = p

\* C31: a rule matches by the plain string-prefix test, not by path segment:
\* the matcher finds a rule exactly when some rule's prefix is an initial
\* piece of the url, and it returns the first such rule of the table, so that
\* /ab is given to the rule /a when no longer rule matches (as /admin2 is
\* given to the rule /admin).
C31_PlainPrefixMatch ==
    probe # NoProbe =>
        LET hits == { i \in DOMAIN routes : IsPrefixOf(routes[i].path, probe.url) }
        IN  /\ probe.result.found <=> hits # {}
            /\ hits # {} =>
                  /\ probe.result.path = routes[Min(hits)].path
                  /\ probe.result.target = routes[Min(hits)].target

C31_Witness ==
    /\ probe.url = U_ab
    /\ probe.result.found
    /\ probe.result.path = P_a
    /\ HasRootRule(routes)
    /\ \A i \in DOMAIN routes : routes[i].path # P_ab


\* C32: the matcher's choice depends on the path of the request only: two
\* urls with the same path and different query strings are matched to the
\* same rule.
C32_MatchDependsOnPathOnly ==
    probe # NoProbe =>
        \A u \in ProbeUrls :
            PathOf(u) = PathOf(probe.url) => FindRoute(routes, u) = probe.result


U_x_y == <<"/", "x", "?", "y">>

\* C33: when inference is accepted, the path and query sent upstream are the
\* pathname and search of the URL inference returned, whatever the request's
\* own path and query were; the request's own url is sent only by the
\* fallback.
C33_InferredPathSent ==
    \A r \in Reqs :
        LET q == req[r]
        IN  /\ \A i \in DOMAIN q.forwards :
                  /\ q.forwards[i].by = "inference" =>
                        q.forwards[i].path = ParseURL(q.text).pathname \o ParseURL(q.text).search
                  /\ q.forwards[i].by = "fallback" => q.forwards[i].path = q.url
            /\ (q.text = X_outside /\ q.forwards # <<>>) => q.forwards[1].path = U_x_y
            /\ (q.text = X_inTable /\ q.forwards # <<>>) => q.forwards[1].path = U_ab

C33_Witness ==
    \E r \in Reqs :
        /\ req[r].url = U_ab_q
        /\ req[r].text = X_outside
        /\ Len(req[r].forwards) = 1
        /\ req[r].forwards[1].by = "inference"
        /\ req[r].forwards[1].path = U_x_y
        /\ req[r].forwards[1].outcome = "ok"


\* C34: every request forwarded upstream, by the inference path or by the
\* fallback, carries a header that names the client's address, besides the
\* Host header rewritten to the target's host.
C34_ClientAddressForwarded ==
    \A r \in Reqs :
        \A i \in DOMAIN req[r].forwards :
            LET f == req[r].forwards[i]
            IN  /\ f.headers.forwardedFor = ClientAddress
                /\ f.headers.host = TargetHost


\* C35: for every request url the hard-coded rule chains (the fallback and
\* the ultimate fallback of index.js, and the simple proxy) choose the backend
\* that useRuleBasedFallback chooses over the table loaded from the shipped
\* configuration file.
C35_ChainsEqualTable ==
    (config = ShippedConfig /\ probe # NoProbe) =>
        /\ probe.result.found
        /\ probe.result.target = indexFallback(probe.url)
        /\ probe.result.target = indexUltimateFallback(probe.url)
        /\ probe.result.target = simpleProxy(probe.url)


\* the promise of the i-th call of spawnProcess
PromiseOf(i) == IF i \in DOMAIN orch.procs THEN orch.procs[i].promise ELSE "none"

\* C36: the promise spawnProcess returns always settles: in whatever order
\* the child's ready line, the startup timer and the child's error and close
\* events come (a child that exits with code 0 before its ready line
\* included), the promise is eventually resolved or rejected, or the
\* orchestrator has exited, so that main never waits forever.
C36_SpawnSettles ==
    \A i \in 1..NumChildren :
        (i \in DOMAIN orch.procs) ~>
            (PromiseOf(i) # "pending" \/ orch.main = "exited")

====
